---- MODULE Spec2Model ----
(***************************************************************************)
(* Model of the two page-wide stores of Ciche Wzgorze:                     *)
(*   src/sanity.js     the Sanity meter (value, subscribers, badge, effect) *)
(*   src/inventory.js  the Inventory set (items, listeners, localStorage)   *)
(* JavaScript runs every public call to completion, so each call is one    *)
(* action; what happens inside it (notification fan-out, callbacks that    *)
(* call back into the store) is computed by recursive operators.           *)
(***************************************************************************)
EXTENDS Integers, Sequences, FiniteSets, TLC

VARIABLES
    value,          \* STATE.value
    subscribers,    \* STATE.subscribers (array of callbacks, duplicates allowed)
    mountedBadge,   \* STATE.mountedBadge: <<container, index>> or NoBadge
    options,        \* STATE.options {start, mount}
    effectTimer,    \* STATE.effectTimer: id of the last timer scheduled, 0 = null
    dom,            \* the page: container -> sequence of elements in document order
    bodyClasses,    \* document.body.classList
    timers,         \* pending setTimeout callbacks: set of [id, cls, dur]
    nextTimer,      \* next timer id handed out by setTimeout
    cancelled,      \* ids of pending timers that clearTimeout removed
    ran,            \* ids of timers whose callback ran
    unsubs,         \* callbacks for which subscribe has returned an unsubscribe()
    log,            \* what the last Sanity call delivered, in order
    lastCall,       \* the last Sanity call: operation, argument, state before
    items,          \* Inventory items (a Set: insertion order, no duplicates)
    listeners,      \* Inventory listeners: type -> Set of callbacks (insertion order)
    storage,        \* localStorage[LS_KEY]
    ilog,           \* what the last Inventory call delivered, in order
    ilastCall,      \* the last Inventory call
    peer,           \* a second tab on the same origin: [open, items]
    inbox,          \* storage events queued and not yet handled: tab -> count
    typed           \* the last call of a function made by wrapTypeText

sanityVars == <<value, subscribers, mountedBadge, options, dom, unsubs, log, lastCall, typed>>
effectVars == <<effectTimer, bodyClasses, timers, nextTimer, cancelled, ran>>
invVars    == <<items, listeners, storage, ilog, ilastCall, peer, inbox>>
vars       == <<sanityVars, effectVars, invVars>>

---------------------------------------------------------------------------
(* Bounds of the model *)
MaxSubs   == 2      \* longest subscriber array / listener set explored
MaxDom    == 2      \* most elements in one mount container
MaxTimers == 4      \* most setTimeout calls in one behaviour
MaxText   == 1      \* longest text given to a wrapped type function
MaxInbox  == 2      \* most storage events waiting in one tab

---------------------------------------------------------------------------
(* JavaScript values.  A value is <<kind, n>>:                             *)
(*   "num" n   a finite number        "inf" 1 / -1   +Infinity / -Infinity *)
(*   "nan"     NaN                    "str"          a non-numeric string  *)
(*   "numstr" n  the string "n"       "undef", "null"                      *)
Num(n)   == <<"num", n>>
NaN      == <<"nan", 0>>
PosInf   == <<"inf", 1>>
NegInf   == <<"inf", -1>>
Str      == <<"str", 0>>
NumStr(n) == <<"numstr", n>>
Undef    == <<"undef", 0>>
JsNull   == <<"null", 0>>
Absent   == <<"absent", 0>>   \* a key that an options object does not have

\* Number(v)
Number(v) ==
    CASE v[1] = "num"    -> v
      [] v[1] = "inf"    -> v
      [] v[1] = "numstr" -> Num(v[2])
      [] v[1] = "null"   -> Num(0)
      [] OTHER           -> NaN

\* ToBoolean(v)
Truthy(v) ==
    CASE v[1] = "num"    -> v[2] # 0
      [] v[1] = "inf"    -> TRUE
      [] v[1] = "str"    -> TRUE
      [] v[1] = "numstr" -> TRUE
      [] OTHER           -> FALSE

\* a || b
Or(a, b) == IF Truthy(a) THEN a ELSE b

\* a ?? b
Nullish(a, b) == IF a[1] \in {"undef", "null", "absent"} THEN b ELSE a

\* a < b on numbers (false when either is NaN)
Less(a, b) ==
    /\ a[1] # "nan" /\ b[1] # "nan"
    /\ \/ a[1] = "num" /\ b[1] = "num" /\ a[2] < b[2]
       \/ a = NegInf /\ b # NegInf
       \/ b = PosInf /\ a # PosInf

\* x + y on numbers
Plus(a, b) ==
    CASE a[1] = "nan" \/ b[1] = "nan"     -> NaN
      [] a[1] = "inf" /\ b[1] = "inf"     -> IF a = b THEN a ELSE NaN
      [] a[1] = "inf"                     -> a
      [] b[1] = "inf"                     -> b
      [] OTHER                            -> Num(a[2] + b[2])

MathMin(a, b) == IF a[1] = "nan" \/ b[1] = "nan" THEN NaN ELSE IF Less(b, a) THEN b ELSE a
MathMax(a, b) == IF a[1] = "nan" \/ b[1] = "nan" THEN NaN ELSE IF Less(a, b) THEN b ELSE a

---------------------------------------------------------------------------
(* sanity.js: constants and utilities *)
MIN == 0            \* STATE.min
MAX == 100          \* STATE.max
DefaultStart == 100 \* init: start ?? 100, || 100

clampNoUpper(v, lo, hi) == MathMax(lo, v)
clamp(v, lo, hi) == MathMax(lo, MathMin(hi, v))

InRange(v) == v[1] = "num" /\ MIN <= v[2] /\ v[2] <= MAX

(* The page.  An element is [kind, text]:                                  *)
(*   "pillVal"   a .pill holding a #sanToolbarVal (what ensureBadge makes)  *)
(*   "pillAttr"  a .pill carrying data-san-badge, no #sanToolbarVal inside  *)
(*   "bareVal"   a #sanToolbarVal with no .pill ancestor                    *)
(*   "bareAttr"  a [data-san-badge] element with no .pill ancestor          *)
Containers == {1, 2}
NoBadge    == <<0, 0>>
Dash       == <<"dash", Num(0)>>              \* the text "—"
BadgeText(val) == <<"slash100", val>>         \* `${val}/100`
Elem(kind) == [kind |-> kind, text |-> Dash]

\* index of the first element of s whose kind is in kinds, 0 when none
RECURSIVE FirstOf(_, _, _)
FirstOf(s, kinds, i) ==
    IF i > Len(s) THEN 0
    ELSE IF s[i].kind \in kinds THEN i ELSE FirstOf(s, kinds, i + 1)

\* container.querySelector("#sanToolbarVal") || container.querySelector("[data-san-badge]")
Existing(s) ==
    LET byId == FirstOf(s, {"pillVal", "bareVal"}, 1)
    IN  IF byId # 0 THEN byId ELSE FirstOf(s, {"pillVal", "pillAttr", "bareAttr"}, 1)

\* existing.closest(".pill"): the index of the pill, 0 when there is none
ClosestPill(s, i) == IF i # 0 /\ s[i].kind \in {"pillVal", "pillAttr"} THEN i ELSE 0

---------------------------------------------------------------------------
(* Subscriber callbacks are the callers' code.  Three kinds are explored:  *)
(*   "quiet"    returns normally                                            *)
(*   "thrower"  throws                                                      *)
(*   "setter"   calls Sanity.set(CbSetArg) from inside the callback         *)
Callbacks == {"quiet", "thrower", "setter"}
(* and two that change the subscriptions from inside a callback:           *)
(*   "subber"   calls Sanity.subscribe(quiet) unless it has quiet subscribed *)
(*   "unsubber" calls the unsubscribe function of quiet                     *)
SubCallbacks == {"quiet", "setter", "subber", "unsubber"}
CbSubArg == "quiet"
NotAFunction == "notAFunction"
CbSetArg == Num(10)

CbEntry(cb, val, by) == [k |-> "cb", cb |-> cb, val |-> val, by |-> by]

RECURSIVE notify(_), Deliver(_, _, _, _), DeliverLive(_, _, _), InvokeCb(_, _, _, _), set(_, _),
          subscribe(_, _), unsubscribe(_, _)

\* cb(val): the call is recorded, then the callback's body runs
InvokeCb(cb, val, by, m) ==
    LET m1 == [m EXCEPT !.log = Append(@, CbEntry(cb, val, by))]
    IN  CASE cb = "thrower" -> [m1 EXCEPT !.exc = TRUE]
          [] cb = "setter"  -> set([m1 EXCEPT !.reentered = TRUE], CbSetArg)
          [] cb = "subber" /\ \A i \in 1..Len(m1.subscribers) : m1.subscribers[i] # CbSubArg
                            -> subscribe(m1, CbSubArg)
          [] cb = "unsubber" -> unsubscribe(m1, CbSubArg)
          [] OTHER          -> m1

\* try { cb(val); } catch(e) { /* swallow */ }
TryCbNoCatch(cb, val, by, m) == InvokeCb(cb, val, by, m)
TryCb(cb, val, by, m) == [InvokeCb(cb, val, by, m) EXCEPT !.exc = FALSE]

\* for (const cb of STATE.subscribers.slice()) ...   (an exception ends the loop)
Deliver(m, snap, i, val) ==
    IF i > Len(snap) \/ m.exc THEN m
    ELSE Deliver(TryCb(snap[i], val, "notify", m), snap, i + 1, val)

\* the same loop over STATE.subscribers itself, without .slice()
DeliverLive(m, i, val) ==
    IF i > Len(m.subscribers) \/ m.exc THEN m
    ELSE DeliverLive(TryCb(m.subscribers[i], val, "notify", m), i + 1, val)

HasValEl(d, b) == b # NoBadge /\ d[b[1]][b[2]].kind = "pillVal"

notifyLive(m) ==
    LET val == m.value
        m1  == DeliverLive(m, 1, val)
        m2  == [m1 EXCEPT !.log = Append(@, [k |-> "event", cb |-> "window", val |-> val, by |-> "notify"])]
        b   == m2.mountedBadge
        m3  == IF HasValEl(m2.dom, b)
               THEN [m2 EXCEPT !.dom[b[1]][b[2]].text = BadgeText(val),
                               !.log = Append(@, [k |-> "badge", cb |-> "badge", val |-> val, by |-> "notify"])]
               ELSE m2
    IN  IF m1.exc THEN m1 ELSE m3
notify(m) ==
    LET val == m.value
        m1  == Deliver(m, m.subscribers, 1, val)
        m2  == [m1 EXCEPT !.log = Append(@, [k |-> "event", cb |-> "window", val |-> val, by |-> "notify"])]
        b   == m2.mountedBadge
        m3  == IF HasValEl(m2.dom, b)
               THEN [m2 EXCEPT !.dom[b[1]][b[2]].text = BadgeText(val),
                               !.log = Append(@, [k |-> "badge", cb |-> "badge", val |-> val, by |-> "notify"])]
               ELSE m2
    IN  IF m1.exc THEN m1 ELSE m3

ensureBadge(m, c) ==
    LET s        == m.dom[c]
        pill     == ClosestPill(s, Existing(s))
    IN  IF pill # 0
        THEN notify([m EXCEPT !.mountedBadge = <<c, pill>>])
        ELSE notify([m EXCEPT !.dom[c] = Append(s, Elem("pillVal")),
                              !.mountedBadge = <<c, Len(s) + 1>>,
                              !.log = Append(@, [k |-> "create", cb |-> "badge", val |-> Num(c), by |-> "ensureBadge"])])

\* API.set
set(m, v) ==
    LET nv == clamp(Or(Number(v), Num(0)), Num(MIN), Num(MAX))
        m1 == notify([m EXCEPT !.value = nv])
    IN  IF nv = m.value THEN [m EXCEPT !.ret = m.value]
        ELSE IF m1.exc THEN m1 ELSE [m1 EXCEPT !.ret = m1.value]

\* API.add
addAlwaysNotify(m, delta) ==
    LET nv == clamp(Plus(m.value, Or(Number(delta), Num(0))), Num(MIN), Num(MAX))
        m1 == notify([m EXCEPT !.value = nv])
    IN  IF m1.exc THEN m1 ELSE [m1 EXCEPT !.ret = m1.value]
add(m, delta) ==
    LET nv == clamp(Plus(m.value, Or(Number(delta), Num(0))), Num(MIN), Num(MAX))
        m1 == notify([m EXCEPT !.value = nv])
    IN  IF nv = m.value THEN [m EXCEPT !.ret = m.value]
        ELSE IF m1.exc THEN m1 ELSE [m1 EXCEPT !.ret = m1.value]

\* API.change
change(m, delta) == add(m, delta)

\* API.get
get == value

\* Object.assign({}, STATE.options, opts || {})
Assign(o, opts) ==
    [start |-> IF opts.start = Absent THEN o.start ELSE opts.start,
     mount |-> IF opts.mount = Absent THEN o.mount ELSE opts.mount]

\* mount is <<"el", c>> (an Element), <<"sel", c>> (a selector that finds
\* container c; c = 0 finds nothing), or null/undefined
Container(mount) == IF mount[1] \in {"el", "sel"} THEN mount[2] ELSE 0

\* API.init, after the options are merged
init(m, o) ==
    LET v0 == clamp(Or(Number(Nullish(o.start, Num(DefaultStart))), Num(DefaultStart)), Num(MIN), Num(MAX))
        m0 == [m EXCEPT !.value = v0]
        c  == Container(o.mount)
        m1 == IF c # 0 THEN ensureBadge(m0, c) ELSE m0
        m2 == IF m1.exc THEN m1 ELSE notify(m1)
    IN  IF m2.exc THEN m2 ELSE [m2 EXCEPT !.ret = Undef]

\* API.subscribe
subscribeNoPush(m, cb) ==
    IF cb = NotAFunction THEN m
    ELSE [m EXCEPT !.subscribers = Append(@, cb)]
subscribe(m, cb) ==
    IF cb = NotAFunction THEN m
    ELSE LET m1 == [m EXCEPT !.subscribers = Append(@, cb)]
         IN  TryCb(cb, m1.value, "subscribe", m1)

\* the unsubscribe() returned by subscribe(cb)
RemoveAt(s, i) == SubSeq(s, 1, i - 1) \o SubSeq(s, i + 1, Len(s))
IndexOf(s, x) == IF \E i \in 1..Len(s) : s[i] = x
                 THEN CHOOSE i \in 1..Len(s) : s[i] = x /\ \A j \in 1..(i - 1) : s[j] # x
                 ELSE 0
unsubscribe(m, cb) ==
    LET i == IndexOf(m.subscribers, cb)
    IN  IF i > 0 THEN [m EXCEPT !.subscribers = RemoveAt(@, i)] ELSE m

---------------------------------------------------------------------------
(* The Sanity calls as actions *)
Machine ==
    [value |-> value, subscribers |-> subscribers, mountedBadge |-> mountedBadge,
     dom |-> dom, log |-> <<>>, exc |-> FALSE, ret |-> Undef, reentered |-> FALSE]

Commit(m, op, arg, cb) ==
    /\ value' = m.value
    /\ subscribers' = m.subscribers
    /\ mountedBadge' = m.mountedBadge
    /\ dom' = m.dom
    /\ log' = m.log
    /\ typed' = typed
    /\ lastCall' = [op |-> op, arg |-> arg, cb |-> cb, ret |-> m.ret, threw |-> m.exc,
                    reentered |-> m.reentered,
                    pre |-> [value |-> value, subscribers |-> subscribers, dom |-> dom,
                             mountedBadge |-> mountedBadge]]

CallInit(opts) ==
    /\ LET o == Assign(options, opts)
       IN  /\ Container(o.mount) # 0 => Len(dom[Container(o.mount)]) < MaxDom
           /\ options' = o
           /\ Commit(init(Machine, o), "init", opts.start, "")
    /\ UNCHANGED <<unsubs, effectVars, invVars>>

CallSet(v) ==
    /\ Commit(set(Machine, v), "set", v, "")
    /\ UNCHANGED <<options, unsubs, effectVars, invVars>>

CallAdd(d) ==
    /\ Commit(add(Machine, d), "add", d, "")
    /\ UNCHANGED <<options, unsubs, effectVars, invVars>>

CallChange(d) ==
    /\ Commit(change(Machine, d), "change", d, "")
    /\ UNCHANGED <<options, unsubs, effectVars, invVars>>

CallSubscribe(cb) ==
    /\ cb # NotAFunction => Len(subscribers) < MaxSubs
    /\ Commit(subscribe(Machine, cb), "subscribe", Undef, cb)
    /\ unsubs' = IF cb = NotAFunction THEN unsubs ELSE unsubs \cup {cb}
    /\ UNCHANGED <<options, effectVars, invVars>>

CallUnsubscribe(cb) ==
    /\ cb \in unsubs
    /\ Commit(unsubscribe(Machine, cb), "unsubscribe", Undef, cb)
    /\ UNCHANGED <<options, unsubs, effectVars, invVars>>

---------------------------------------------------------------------------
(* API.wrapTypeText.  Probabilities and Math.random() results are counted  *)
(* in thousandths: 30 is 0.03, and Math.random() gives 0..999.             *)
tierForStrict(v) ==
    IF v[2] > 80 THEN 1 ELSE IF v[2] > 60 THEN 2 ELSE IF v[2] > 40 THEN 3 ELSE IF v[2] > 20 THEN 4 ELSE 5
tierFor(v) ==
    IF v[2] >= 80 THEN 1 ELSE IF v[2] >= 60 THEN 2 ELSE IF v[2] >= 40 THEN 3 ELSE IF v[2] >= 20 THEN 4 ELSE 5

\* (t<=2)?0 : (t===3?0.03 : t===4?0.08 : 0.14)
Intensity(t) == IF t <= 2 THEN 0 ELSE IF t = 3 THEN 30 ELSE IF t = 4 THEN 80 ELSE 140

\* /[A-Za-z\u00C0-\u017E0-9,.\u2026\-!?]/.test(ch), over the characters explored
Alphabet == {"a", " "}
Matches(ch) == ch \in {"a"}

\* kinds[(Math.random()*kinds.length)|0]
kinds == <<"dup", "swap", "dot", "tilde", "space">>
KindOf(r) == kinds[((r * Len(kinds)) \div 1000) + 1]

(* One character's random numbers <<roll, kind roll, swap roll>>, in the   *)
(* order mutate() asks for them.                                           *)
mutate(ch, d, intensity) ==
    IF ~Matches(ch) THEN ch
    ELSE IF d[1] > intensity THEN ch
    ELSE LET k == KindOf(d[2])
         IN  CASE k = "dup"   -> ch \o ch
               [] k = "swap"  -> IF d[3] < 500 THEN "<not-sign>" ELSE "<section-sign>"
               [] k = "dot"   -> "<middle-dot>"
               [] k = "tilde" -> "~"
               [] k = "space" -> ch \o "<hair-space>"
               [] OTHER       -> ch

\* String(text).split("").map(mutate).join("")
RECURSIVE Glitch(_, _, _, _)
Glitch(text, draws, i, intensity) ==
    IF i > Len(text) THEN ""
    ELSE mutate(text[i], draws[i], intensity) \o Glitch(text, draws, i + 1, intensity)

\* the text itself, as one string
RECURSIVE Join(_)
Join(text) == IF text = <<>> THEN "" ELSE Head(text) \o Join(Tail(text))

\* typeFn: the render function hands back what it was given, tagged
Render(out) == <<"rendered", out>>
NoRender == <<"undefined", "">>

\* the function wrapTypeText(typeFn) returns, called with text
wrapped(v, typeFn, text, draws, fin) ==
    LET t         == tierFor(v)
        intensity == Intensity(t)
        glitched  == Glitch(text, draws, 1, intensity)
        finalOut  == IF 2 * fin < intensity THEN glitched \o "<zwj>" ELSE glitched
    IN  IF typeFn = NotAFunction
        THEN [fn |-> typeFn, text |-> text, value |-> v, intensity |-> 0, out |-> "", ret |-> NoRender]
        ELSE [fn |-> typeFn, text |-> text, value |-> v, intensity |-> intensity,
              out |-> finalOut, ret |-> Render(finalOut)]

\* random numbers mutate() does not ask for are left at 0
Consumed(d, ch, intensity) ==
    /\ ~Matches(ch) => d[1] = 0
    /\ (~Matches(ch) \/ d[1] > intensity) => d[2] = 0
    /\ (~Matches(ch) \/ d[1] > intensity \/ KindOf(d[2]) # "swap") => d[3] = 0

CallType(typeFn, text, draws, fin) ==
    /\ Len(draws) = Len(text)
    /\ \A i \in 1..Len(text) : Consumed(draws[i], text[i], Intensity(tierFor(get)))
    /\ typed' = wrapped(get, typeFn, text, draws, fin)
    /\ UNCHANGED <<value, subscribers, mountedBadge, options, dom, unsubs, log, lastCall,
                   effectVars, invVars>>

---------------------------------------------------------------------------
(* API.effect and the timer it schedules *)
DefaultDur == 450   \* Number(ms) || 450

\* name === "shake" ? "san-effect-shake" : `san-effect-${name}`
Cls(name) == IF name = "shake" THEN "san-effect-shake" ELSE "san-effect-" \o name

\* clearTimeout(id): a pending timer with that id is dropped, anything else is ignored
clearTimeout(e, id) ==
    [e EXCEPT !.timers = {t \in @ : t.id # id},
              !.cancelled = @ \cup {t.id : t \in {u \in e.timers : u.id = id}}]

\* setTimeout(() => document.body.classList.remove(cls), dur)
setTimeout(e, cls, dur) ==
    [e EXCEPT !.timers = @ \cup {[id |-> e.nextTimer, cls |-> cls, dur |-> dur]},
              !.effectTimer = e.nextTimer,
              !.nextTimer = @ + 1]

effectNoClear(e, name, ms) ==
    LET dur == Or(Number(ms), Num(DefaultDur))
        cls == Cls(name)
    IN  setTimeout([e EXCEPT !.bodyClasses = @ \cup {cls}], cls, dur)
effect(e, name, ms) ==
    LET dur == Or(Number(ms), Num(DefaultDur))
        cls == Cls(name)
        e1  == [e EXCEPT !.bodyClasses = @ \cup {cls}]
    IN  setTimeout(clearTimeout(e1, e1.effectTimer), cls, dur)

EffectState ==
    [effectTimer |-> effectTimer, bodyClasses |-> bodyClasses, timers |-> timers,
     nextTimer |-> nextTimer, cancelled |-> cancelled]

CallEffect(name, ms) ==
    /\ nextTimer <= MaxTimers
    /\ LET e == effect(EffectState, name, ms)
       IN  /\ effectTimer' = e.effectTimer
           /\ bodyClasses' = e.bodyClasses
           /\ timers' = e.timers
           /\ nextTimer' = e.nextTimer
           /\ cancelled' = e.cancelled
    /\ UNCHANGED <<ran, sanityVars, invVars>>

\* a pending timer fires: its callback removes the class it was created for
TimerFire(t) ==
    /\ t \in timers
    /\ bodyClasses' = bodyClasses \ {t.cls}
    /\ timers' = timers \ {t}
    /\ ran' = ran \cup {t.id}
    /\ UNCHANGED <<effectTimer, nextTimer, cancelled, sanityVars, invVars>>

---------------------------------------------------------------------------
(* inventory.js *)
LS_KEY == "cw.inventory.v1"
EV_CHANGE == "inventory:change"
EV_USE == "inventory:use"

(* Item names as callers pass them: [t, s] with t the JavaScript type and   *)
(* s the text String(name) gives.                                           *)
NameStr(x)  == [t |-> "string", s |-> x]
NameNum(x)  == [t |-> "number", s |-> x]
NameUndef   == [t |-> "undefined", s |-> "undefined"]
String(name) == name.s
TruthyName(name) ==
    \/ name.t = "string" /\ name.s # ""
    \/ name.t = "number" /\ name.s # "0"

(* localStorage[LS_KEY]: [kind |-> "null"] when the key is absent,           *)
(* [kind |-> "json", list |-> l] for the text of a JSON array of strings,    *)
(* [kind |-> "bad"] for text JSON.parse rejects.                             *)
LSNull == [kind |-> "null", list |-> <<>>]
LSBad  == [kind |-> "bad", list |-> <<>>]
Stringify(l) == [kind |-> "json", list |-> l]

\* new Set(array): first occurrences, in order
RECURSIVE ToSet(_, _)
ToSet(l, acc) ==
    IF l = <<>> THEN acc
    ELSE ToSet(Tail(l), IF \E i \in 1..Len(acc) : acc[i] = Head(l) THEN acc ELSE Append(acc, Head(l)))

\* new Set(JSON.parse(localStorage.getItem(LS_KEY) || "[]")), empty on any throw
Load(st) == IF st.kind = "json" THEN ToSet(st.list, <<>>) ELSE <<>>

SetAdd(s, x)    == IF \E i \in 1..Len(s) : s[i] = x THEN s ELSE Append(s, x)
SetDelete(s, x) == SelectSeq(s, LAMBDA y : y # x)
SetHas(s, x)    == \E i \in 1..Len(s) : s[i] = x

(* Listener callbacks: "quiet", "thrower", and "adder", which calls          *)
(* Inventory.add(CbAddName) when the payload it is given lacks that item.    *)
InvCallbacks == {"quiet", "thrower", "adder"}
CbAddName == NameStr("b")
\* a listener that takes item "a" out again whenever a change shows it:
\*   l => { if (l.includes("a")) Inventory.remove("a") }
Remover == "remover"
CbRemoveName == NameStr("a")

IEntry(type, cb, val, by) == [k |-> "cb", type |-> type, cb |-> cb, val |-> val, by |-> by]

RECURSIVE dispatch(_, _, _), IDeliver(_, _, _, _), IInvoke(_, _, _, _, _), invAdd(_, _), invRemove(_, _), save(_)

\* function list() { return [...items]; }
list(m) == m.items

IInvoke(type, cb, detail, by, m) ==
    LET m1 == [m EXCEPT !.log = Append(@, IEntry(type, cb, detail, by))]
    IN  CASE cb = "thrower" -> [m1 EXCEPT !.exc = TRUE]
          [] cb = "adder" /\ type = EV_CHANGE /\ ~SetHas(detail, String(CbAddName)) -> invAdd([m1 EXCEPT !.reentered = TRUE], CbAddName)
          [] cb = Remover /\ type = EV_CHANGE /\ SetHas(detail, String(CbRemoveName)) -> invRemove([m1 EXCEPT !.reentered = TRUE], CbRemoveName)
          [] OTHER -> m1

\* try { cb(detail); } catch(e){ console.error(e); }
ITryCbNoCatch(type, cb, detail, by, m) == IInvoke(type, cb, detail, by, m)
ITryCb(type, cb, detail, by, m) == [IInvoke(type, cb, detail, by, m) EXCEPT !.exc = FALSE]

\* for (const cb of set) ...   (the Set is read live; an exception ends the loop)
IDeliver(m, type, i, detail) ==
    IF i > Len(m.listeners[type]) \/ m.exc THEN m
    ELSE IDeliver(ITryCb(type, m.listeners[type][i], detail, "dispatch", m), type, i + 1, detail)

dispatch(m, type, detail) ==
    LET m1 == IDeliver(m, type, 1, detail)
    IN  IF m1.exc THEN m1
        ELSE [m1 EXCEPT !.log = Append(@, [k |-> "event", type |-> type, cb |-> "window", val |-> detail, by |-> "dispatch"])]

\* localStorage.setItem(LS_KEY, text): other tabs get a storage event when
\* the stored text changes
setItemLost(m, text) == m
setItem(m, text) ==
    [m EXCEPT !.storage = text, !.sent = @ + (IF text # m.storage THEN 1 ELSE 0)]

\* save(): setItem throws when m.quota is set (storage full or unavailable)
saveNoCatch(m) ==
    IF m.quota THEN [m EXCEPT !.exc = TRUE]
    ELSE dispatch(setItem(m, Stringify(list(m))), EV_CHANGE, list(m))
save(m) ==
    LET m1 == IF m.quota THEN m ELSE setItem(m, Stringify(list(m)))
    IN  dispatch(m1, EV_CHANGE, list(m1))

\* loadFromLS()
loadNoReload(m) == dispatch(m, EV_CHANGE, list(m))
loadFromLS(m) ==
    LET m1 == [m EXCEPT !.items = Load(m.storage)]
    IN  dispatch(m1, EV_CHANGE, list(m1))

\* Inventory.add
invAddDup(m, name) ==
    IF ~TruthyName(name) THEN m
    ELSE save([m EXCEPT !.items = Append(@, String(name))])
invAdd(m, name) ==
    IF ~TruthyName(name) THEN m
    ELSE save([m EXCEPT !.items = SetAdd(@, String(name))])

\* Inventory.remove
invRemove(m, name) == save([m EXCEPT !.items = SetDelete(@, String(name))])

\* Inventory.has
has(m, name) == SetHas(m.items, String(name))

\* Inventory.clear
invClear(m) == save([m EXCEPT !.items = <<>>])

\* Inventory.use
useAlways(m, name) == dispatch(m, EV_USE, [item |-> String(name)])
use(m, name) ==
    IF ~has(m, name) THEN m
    ELSE dispatch(m, EV_USE, [item |-> String(name)])

\* on(type, cb, {immediateValue})
onNoImmediate(m, type, cb, immediate) ==
    IF cb = NotAFunction THEN m
    ELSE [m EXCEPT !.listeners[type] = SetAdd(@, cb)]
on(m, type, cb, immediate) ==
    IF cb = NotAFunction THEN m
    ELSE LET m1 == [m EXCEPT !.listeners[type] = SetAdd(@, cb)]
         IN  IF immediate THEN ITryCb(type, cb, list(m1), "on", m1) ELSE m1

\* Inventory.onChange / Inventory.subscribe
onChange(m, cb) == on(m, EV_CHANGE, cb, TRUE)
\* Inventory.onUse
onUse(m, cb) == on(m, EV_USE, cb, FALSE)

\* Inventory.subscribe: `return this.onChange(cb)`; called detached from
\* Inventory, `this` is undefined and the call throws a TypeError
invSubscribe(m, cb, bound) == IF bound THEN onChange(m, cb) ELSE [m EXCEPT !.exc = TRUE]

IMachine(quota) ==
    [items |-> items, listeners |-> listeners, storage |-> storage,
     log |-> <<>>, exc |-> FALSE, quota |-> quota, reentered |-> FALSE, sent |-> 0]

\* the call's effect on this tab, handled = 1 when it consumed a storage event
ICommitH(m, op, name, cb, handled) ==
    /\ peer.open => inbox[2] + m.sent <= MaxInbox
    /\ items' = m.items
    /\ listeners' = m.listeners
    /\ storage' = m.storage
    /\ ilog' = m.log
    /\ peer' = peer
    /\ inbox' = [inbox EXCEPT ![1] = @ - handled,
                              ![2] = IF peer.open THEN @ + m.sent ELSE @]
    /\ ilastCall' = [op |-> op, name |-> name, cb |-> cb, threw |-> m.exc, quota |-> m.quota,
                     reentered |-> m.reentered,
                     pre |-> [items |-> items, listeners |-> listeners, storage |-> storage]]

ICommit(m, op, name, cb) == ICommitH(m, op, name, cb, 0)

CallInvAdd(name, quota) ==
    /\ ICommit(invAdd(IMachine(quota), name), "add", name, "")
    /\ UNCHANGED <<sanityVars, effectVars>>

CallInvRemove(name, quota) ==
    /\ ICommit(invRemove(IMachine(quota), name), "remove", name, "")
    /\ UNCHANGED <<sanityVars, effectVars>>

CallInvClear(quota) ==
    /\ ICommit(invClear(IMachine(quota)), "clear", NameUndef, "")
    /\ UNCHANGED <<sanityVars, effectVars>>

CallInvUse(name) ==
    /\ ICommit(use(IMachine(FALSE), name), "use", name, "")
    /\ UNCHANGED <<sanityVars, effectVars>>

CallInvOnChange(cb) ==
    /\ cb # NotAFunction /\ ~SetHas(listeners[EV_CHANGE], cb) => Len(listeners[EV_CHANGE]) < MaxSubs
    /\ ICommit(onChange(IMachine(FALSE), cb), "onChange", NameUndef, cb)
    /\ UNCHANGED <<sanityVars, effectVars>>

CallInvOnUse(cb) ==
    /\ cb # NotAFunction /\ ~SetHas(listeners[EV_USE], cb) => Len(listeners[EV_USE]) < MaxSubs
    /\ ICommit(onUse(IMachine(FALSE), cb), "onUse", NameUndef, cb)
    /\ UNCHANGED <<sanityVars, effectVars>>

CallInvSubscribe(cb, bound) ==
    /\ cb # NotAFunction /\ ~SetHas(listeners[EV_CHANGE], cb) => Len(listeners[EV_CHANGE]) < MaxSubs
    /\ ICommit(invSubscribe(IMachine(FALSE), cb, bound), "subscribe", NameUndef, cb)
    /\ UNCHANGED <<sanityVars, effectVars>>

\* window "storage" listener: if (e.key === LS_KEY) loadFromLS()
StorageEvent ==
    /\ inbox[1] > 0
    /\ ICommitH(loadFromLS(IMachine(FALSE)), "storage", NameUndef, "", 1)
    /\ UNCHANGED <<sanityVars, effectVars>>

(* The second tab runs the same script on the same localStorage; it has   *)
(* no listeners of its own.                                                *)
PeerMachine ==
    [items |-> peer.items, listeners |-> [t \in {EV_CHANGE, EV_USE} |-> <<>>], storage |-> storage,
     log |-> <<>>, exc |-> FALSE, quota |-> FALSE, reentered |-> FALSE, sent |-> 0]

PeerCommit(m, handled) ==
    /\ peer.open
    /\ inbox[1] + m.sent <= MaxInbox
    /\ peer' = [peer EXCEPT !.items = m.items]
    /\ storage' = m.storage
    /\ inbox' = [inbox EXCEPT ![1] = @ + m.sent, ![2] = @ - handled]
    /\ UNCHANGED <<items, listeners, ilog, ilastCall, sanityVars, effectVars>>

PeerAdd(name) == PeerCommit(invAdd(PeerMachine, name), 0)
PeerRemove(name) == PeerCommit(invRemove(PeerMachine, name), 0)
PeerStorageEvent ==
    /\ inbox[2] > 0
    /\ PeerCommit(loadFromLS(PeerMachine), 1)

\* some other script of the origin stores text under LS_KEY
ForeignWrite(text) ==
    /\ text # storage
    /\ inbox[1] < MaxInbox
    /\ peer.open => inbox[2] < MaxInbox
    /\ storage' = text
    /\ inbox' = [inbox EXCEPT ![1] = @ + 1, ![2] = IF peer.open THEN @ + 1 ELSE @]
    /\ ilog' = <<>>
    /\ ilastCall' = [ilastCall EXCEPT !.op = "foreign"]
    /\ UNCHANGED <<items, listeners, peer, sanityVars, effectVars>>

---------------------------------------------------------------------------
(* Initial state: both scripts have just run on a page.  The page may      *)
(* already hold one badge-like element in container 1; localStorage holds  *)
(* whatever an earlier visit left.                                          *)
PageVariants == {<<>>, <<Elem("pillVal")>>, <<Elem("pillAttr")>>, <<Elem("bareVal")>>, <<Elem("bareAttr")>>}
StorageVariants == {LSNull, LSBad, Stringify(<<>>), Stringify(<<"a">>)}

Init ==
    /\ value = Num(100)
    /\ subscribers = <<>>
    /\ mountedBadge = NoBadge
    /\ options = [start |-> Num(100), mount |-> JsNull]
    /\ effectTimer = 0
    /\ dom \in {[c \in Containers |-> IF c = 1 THEN p ELSE <<>>] : p \in PageVariants}
    /\ bodyClasses = {}
    /\ timers = {}
    /\ nextTimer = 1
    /\ cancelled = {}
    /\ ran = {}
    /\ unsubs = {}
    /\ log = <<>>
    /\ lastCall = [op |-> "load", arg |-> Undef, cb |-> "", ret |-> Undef, threw |-> FALSE,
                   reentered |-> FALSE,
                   pre |-> [value |-> Num(100), subscribers |-> <<>>, dom |-> dom,
                            mountedBadge |-> NoBadge]]
    /\ storage \in StorageVariants
    /\ items = Load(storage)
    /\ listeners = [t \in {EV_CHANGE, EV_USE} |-> <<>>]
    /\ ilog = <<[k |-> "event", type |-> EV_CHANGE, cb |-> "window", val |-> items, by |-> "dispatch"]>>
    /\ ilastCall = [op |-> "load", name |-> NameUndef, cb |-> "", threw |-> FALSE, quota |-> FALSE,
                    reentered |-> FALSE,
                    pre |-> [items |-> items, listeners |-> listeners, storage |-> storage]]
    /\ peer \in {[open |-> o, items |-> IF o THEN items ELSE <<>>] : o \in BOOLEAN}
    /\ inbox = [t \in {1, 2} |-> 0]
    /\ typed = [fn |-> "", text |-> <<>>, value |-> Num(100), intensity |-> 0, out |-> "", ret |-> NoRender]

EmptyPage == [c \in Containers |-> <<>>]

\* a page without badge elements and a first visit (nothing stored)
InitPlain == Init /\ dom = EmptyPage /\ storage = LSNull /\ ~peer.open
\* any page, first visit
InitPage  == Init /\ storage = LSNull /\ ~peer.open
\* a page without badge elements, any stored inventory
InitStored == Init /\ dom = EmptyPage /\ ~peer.open
\* two tabs opened on the same stored inventory
InitTabs == Init /\ dom = EmptyPage /\ peer.open

(* Arguments explored *)
StartArgs  == {Absent, Num(50), Num(0), Num(-20), Num(250), Str}
SetArgs    == {Num(-5), Num(50), Num(130), Str, PosInf, NumStr(30)}
AddArgs    == {Num(-70), Num(1000), Num(20), Str, NegInf}
ChangeArgs == {Num(-70), Str}
NoMount    == {Absent}
Mounts     == {Absent, <<"el", 1>>, <<"sel", 2>>, <<"sel", 0>>}
EffectNames == {"shake", "blur", "fade"}
EffectMs    == {Undef, Num(200), Num(0)}
ItemNames   == {NameStr("a"), NameStr("b"), NameStr(""), NameNum("0")}

(* The Sanity value API on a page without a mount point *)
NextSanity ==
    \/ \E s \in StartArgs : CallInit([start |-> s, mount |-> Absent])
    \/ \E v \in SetArgs : CallSet(v)
    \/ \E d \in AddArgs : CallAdd(d)
    \/ \E d \in ChangeArgs : CallChange(d)
    \/ \E cb \in Callbacks \cup {NotAFunction} : CallSubscribe(cb)
    \/ \E cb \in Callbacks : CallUnsubscribe(cb)

SpecSanity == InitPlain /\ [][NextSanity]_vars

(* The badge: init with mount points, and changes of the value *)
NextBadge ==
    \/ \E s \in {Absent, Num(50)}, mt \in Mounts : CallInit([start |-> s, mount |-> mt])
    \/ \E v \in {Num(50), Str} : CallSet(v)
    \/ \E d \in {Num(-70), Str} : CallAdd(d)
    \/ \E cb \in {"quiet", "setter"} : CallSubscribe(cb)

SpecBadge == InitPage /\ [][NextBadge]_vars

(* effect() and its timer *)
NextEffect ==
    \/ \E n \in EffectNames, ms \in EffectMs : CallEffect(n, ms)
    \/ \E t \in timers : TimerFire(t)

SpecEffect == InitPlain /\ [][NextEffect]_vars

(* Inventory in one tab *)
NextInv ==
    \/ \E n \in ItemNames, q \in BOOLEAN : CallInvAdd(n, q)
    \/ \E n \in ItemNames : CallInvRemove(n, FALSE)
    \/ CallInvClear(FALSE)
    \/ \E n \in ItemNames : CallInvUse(n)
    \/ \E cb \in InvCallbacks \cup {NotAFunction} : CallInvOnChange(cb)
    \/ \E cb \in {"quiet", "thrower", NotAFunction} : CallInvOnUse(cb)
    \/ \E cb \in {"adder", Remover}, bound \in BOOLEAN : CallInvSubscribe(cb, bound)

SpecInv == InitStored /\ [][NextInv]_vars

(* Two tabs on one localStorage, storage working *)
NextTabs ==
    \/ \E n \in {NameStr("a"), NameStr("b")} : CallInvAdd(n, FALSE)
    \/ \E n \in {NameStr("a")} : CallInvRemove(n, FALSE)
    \/ CallInvClear(FALSE)
    \/ \E cb \in {"quiet", "adder"} : CallInvOnChange(cb)
    \/ StorageEvent
    \/ \E n \in {NameStr("a"), NameStr("b")} : PeerAdd(n)
    \/ \E n \in {NameStr("a"), NameStr("b")} : PeerRemove(n)
    \/ PeerStorageEvent

SpecTabs == InitTabs /\ [][NextTabs]_vars

(* One tab whose storage can fail or be overwritten with unreadable text *)
NextFaults ==
    \/ \E n \in {NameStr("a"), NameStr("b")}, q \in BOOLEAN : CallInvAdd(n, q)
    \/ \E n \in {NameStr("a")}, q \in BOOLEAN : CallInvRemove(n, q)
    \/ \E q \in BOOLEAN : CallInvClear(q)
    \/ \E cb \in InvCallbacks : CallInvOnChange(cb)
    \/ \E text \in {LSBad, Stringify(<<"a", "a">>)} : ForeignWrite(text)
    \/ StorageEvent

SpecFaults == InitStored /\ [][NextFaults]_vars

(* The type function made by wrapTypeText, at every tier of the value *)
TierArgs == {Num(19), Num(20), Num(59), Num(60)}
Rolls    == {0, 50, 999}
KindRolls == {0, 250, 450, 650, 850}
SwapRolls == {0, 700}
FinalRolls == {0, 999}
Draws == Rolls \X KindRolls \X SwapRolls
Texts == UNION {[1..n -> Alphabet] : n \in 0..MaxText}

\* the random numbers one call with this text can consume, per character
RECURSIVE DrawsFor(_, _)
DrawsFor(text, intensity) ==
    IF text = <<>> THEN {<<>>}
    ELSE {<<d>> \o rest : d \in {x \in Draws : Consumed(x, Head(text), intensity)},
                          rest \in DrawsFor(Tail(text), intensity)}

NextGlitch ==
    \/ \E v \in TierArgs : CallSet(v)
    \/ \E fn \in {"render", NotAFunction}, text \in Texts, fin \in FinalRolls :
          \E draws \in DrawsFor(text, Intensity(tierFor(get))) : CallType(fn, text, draws, fin)

SpecGlitch == InitPlain /\ [][NextGlitch]_vars

(* Both stores' notifications together *)
NextStores ==
    \/ \E v \in {Num(50), Num(0)} : CallSet(v)
    \/ \E d \in {Num(-70), Num(1000)} : CallAdd(d)
    \/ \E cb \in Callbacks : CallSubscribe(cb)
    \/ \E n \in {NameStr("a"), NameStr("b")} : CallInvAdd(n, FALSE)
    \/ \E n \in {NameStr("a")} : CallInvRemove(n, FALSE)
    \/ \E cb \in InvCallbacks : CallInvOnChange(cb)

SpecStores == InitPlain /\ [][NextStores]_vars

(* Subscribing and unsubscribing, also from inside callbacks *)
NextSubs ==
    \/ \E v \in {Num(50), Num(0)} : CallSet(v)
    \/ \E d \in {Num(-70)} : CallAdd(d)
    \/ \E cb \in SubCallbacks : CallSubscribe(cb)
    \/ \E cb \in SubCallbacks : CallUnsubscribe(cb)

SpecSubs == InitPlain /\ [][NextSubs]_vars

Next == NextSanity \/ NextBadge \/ NextEffect \/ NextInv \/ NextGlitch \/ NextTabs \/ NextFaults
Spec == Init /\ [][Next]_vars

---------------------------------------------------------------------------
(* Properties *)

NonNumeric(v) == Number(v) = NaN
Range(s) == {s[i] : i \in 1..Len(s)}
\* the clamp of an integer into [0,100], written out
ClampInt(n) == IF n < 0 THEN Num(0) ELSE IF n > 100 THEN Num(100) ELSE Num(n)

\* C1: the Sanity value is always a number in [0,100]; set(non-numeric)
\* stores and returns 0 (unless a subscriber changes the value again while
\* it is notified), add/change(non-numeric) leave the value as it was.
C1_ClampedAlways ==
    /\ InRange(value)
    /\ get = value
    /\ (lastCall.op = "set" /\ NonNumeric(lastCall.arg) /\ ~lastCall.reentered)
          => value = Num(0) /\ lastCall.ret = Num(0)
    /\ (lastCall.op \in {"add", "change"} /\ NonNumeric(lastCall.arg))
          => value = lastCall.pre.value /\ lastCall.ret = value

C1_Witness ==
    /\ lastCall.op = "set" /\ NonNumeric(lastCall.arg)
    /\ lastCall.pre.value = Num(100) /\ value = Num(0)

\* C2: after init({start: s}) with a number s the value is s clamped to
\* [0,100]; add(d) with a number d stores and returns clamp(current + d).
C2_InitClampsStart ==
    /\ (lastCall.op = "init" /\ lastCall.arg[1] = "num" /\ ~lastCall.reentered)
          => value = ClampInt(lastCall.arg[2])
    /\ (lastCall.op = "add" /\ lastCall.arg[1] = "num" /\ ~lastCall.reentered)
          => /\ value = ClampInt(lastCall.pre.value[2] + lastCall.arg[2])
             /\ lastCall.ret = value

\* C3: a set/add/change whose clamped result equals the current value
\* notifies nobody: no callback, no event, no badge write, value unchanged.
Target(op, arg, cur) ==
    IF op = "set" THEN clamp(Or(Number(arg), Num(0)), Num(MIN), Num(MAX))
    ELSE clamp(Plus(cur, Or(Number(arg), Num(0))), Num(MIN), Num(MAX))

C3_NoChangeNoNotify ==
    (/\ lastCall.op \in {"set", "add", "change"}
     /\ Target(lastCall.op, lastCall.arg, lastCall.pre.value) = lastCall.pre.value)
    => /\ log = <<>>
       /\ value = lastCall.pre.value
       /\ dom = lastCall.pre.dom
       /\ lastCall.ret = value

C3_Witness ==
    /\ lastCall.op = "add" /\ lastCall.arg = Num(-70) /\ lastCall.pre.value = Num(0)
    /\ Len(subscribers) = 2
    /\ HasValEl(dom, mountedBadge)
    /\ log = <<>>

\* C4: subscribe(cb) with a function registers cb and invokes it itself
\* exactly once, first thing, with the value current at the call; every
\* other invocation in the call comes from a notification and comes later.
C4_SubscribeImmediate ==
    (lastCall.op = "subscribe" /\ lastCall.cb # NotAFunction)
    => /\ Len(log) >= 1
       /\ log[1] = CbEntry(lastCall.cb, lastCall.pre.value, "subscribe")
       /\ Cardinality({i \in 1..Len(log) : log[i].by = "subscribe"}) = 1
       /\ lastCall.pre.subscribers \o <<lastCall.cb>> = subscribers

C4_Witness ==
    /\ lastCall.op = "subscribe" /\ lastCall.cb = "setter"
    /\ lastCall.pre.value = Num(100)
    /\ Len(log) > 1 /\ log[1].val = Num(100)

\* the payload of the last delivery to cb in l (l holds one)
LastFor(l, cb) ==
    LET is == {i \in 1..Len(l) : l[i].k = "cb" /\ l[i].cb = cb}
    IN  l[CHOOSE i \in is : \A j \in is : j <= i].val
Delivered(l) == {l[i].cb : i \in {j \in 1..Len(l) : l[j].k = "cb"}}

\* C5: when a mutating call has returned, the last payload each subscriber
\* was given is the store's current state (Sanity value, Inventory list).
C5_LastPayloadCurrent ==
    /\ lastCall.op \in {"set", "add", "change", "init"}
          => \A cb \in Delivered(log) : LastFor(log, cb) = value
    /\ ilastCall.op \in {"add", "remove", "clear"}
          => \A cb \in Delivered(ilog) : LastFor(ilog, cb) = items

\* C6: a throwing callback stops nothing: the notification of the new
\* state still reaches every registered callback once, in order, and the
\* host event is sent; the subscriber collection is as before; the store
\* holds the new state; the call does not throw.
Outer(l) == SelectSeq(l, LAMBDA e : e.k = "cb" /\ e.val = l[1].val /\ e.by # "on")
Cbs(l) == [i \in 1..Len(l) |-> l[i].cb]

C6_ThrowIsolated ==
    /\ (/\ lastCall.op \in {"set", "add", "change"}
        /\ "thrower" \in Range(lastCall.pre.subscribers)
        /\ log # <<>>)
       => /\ Cbs(Outer(log)) = lastCall.pre.subscribers
          /\ \E i \in 1..Len(log) : log[i].k = "event" /\ log[i].val = log[1].val
          /\ subscribers = lastCall.pre.subscribers
          /\ ~lastCall.threw
          /\ lastCall.ret = value
          /\ ~lastCall.reentered => value = log[1].val
    /\ (/\ ilastCall.op \in {"add", "remove", "clear"}
        /\ "thrower" \in Range(ilastCall.pre.listeners[EV_CHANGE])
        /\ ilog # <<>>)
       => /\ Cbs(Outer(ilog)) = ilastCall.pre.listeners[EV_CHANGE]
          /\ \E i \in 1..Len(ilog) : ilog[i].k = "event" /\ ilog[i].val = ilog[1].val
          /\ listeners = ilastCall.pre.listeners
          /\ ~ilastCall.threw
          /\ storage = Stringify(items)

C6_Witness ==
    /\ lastCall.op = "set" /\ lastCall.pre.subscribers = <<"thrower", "quiet">>
    /\ Len(log) >= 3
    /\ ilastCall.op = "add" /\ ilastCall.pre.listeners[EV_CHANGE] = <<"thrower", "quiet">>
    /\ Len(ilog) >= 3

\* C7: a mounted badge shows "<value>/100" whenever no call is running.
C7_BadgeShowsValue ==
    HasValEl(dom, mountedBadge)
    => dom[mountedBadge[1]][mountedBadge[2]].text = BadgeText(value)

\* C8: a mount container never holds more than one badge-like element,
\* and init creates a badge only in a container that held none.
BadgeLike(s) == {i \in 1..Len(s) : s[i].kind \in {"pillVal", "pillAttr", "bareVal", "bareAttr"}}

C8_OneBadgePerContainer ==
    /\ \A c \in Containers : Cardinality(BadgeLike(dom[c])) <= 1
    /\ \A i \in 1..Len(log) :
          log[i].k = "create" => BadgeLike(lastCall.pre.dom[log[i].val[2]]) = {}

\* C9: once no removal timer is pending, every class an effect call put
\* on the body has been removed.
C9_ClassesRemoved == timers = {} => bodyClasses = {}

\* C10: at most one removal timer is pending, it is the one effectTimer
\* names, and no timer that was cancelled has run.
C10_OneTimer ==
    /\ Cardinality(timers) <= 1
    /\ \A t \in timers : t.id = effectTimer
    /\ cancelled \cap ran = {}
    /\ \A t \in timers : t.id \notin cancelled

C10_Witness ==
    /\ cancelled # {} /\ ran # {}
    /\ Cardinality(timers) = 1

\* C11: at a value of 60 or more the wrapped function hands renderFn the
\* input text unchanged, whatever Math.random() returns, and returns what
\* renderFn returned.
C11_NoGlitchAbove60 ==
    (typed.fn = "render" /\ typed.value[2] >= 60)
    => typed.out = Join(typed.text) /\ typed.ret = Render(Join(typed.text))

\* C19: the intensity used is 0 from 60 up, 0.03 in [40,60), 0.08 in
\* [20,40), 0.14 below 20: positive below 60, never smaller at a lower value.
StepIntensity(n) == IF n >= 60 THEN 0 ELSE IF n >= 40 THEN 30 ELSE IF n >= 20 THEN 80 ELSE 140

C19_IntensitySteps ==
    typed.fn = "render"
    => /\ typed.intensity = StepIntensity(typed.value[2])
       /\ typed.value[2] < 60 => typed.intensity > 0
       /\ \A n \in MIN..MAX : n <= typed.value[2] => Intensity(tierFor(Num(n))) >= typed.intensity
       /\ \A n \in MIN..MAX : Intensity(tierFor(Num(n))) = StepIntensity(n)

C19_Witness ==
    /\ typed.fn = "render" /\ typed.value = Num(20) /\ typed.intensity = 80
    /\ typed.out # Join(typed.text)

\* what the last Inventory call is expected to leave in the set
NoDup(l) == \A i, j \in 1..Len(l) : i # j => l[i] # l[j]
Mutating == ilastCall.op \in {"remove", "clear"} \/ (ilastCall.op = "add" /\ TruthyName(ilastCall.name))
Expected ==
    CASE ilastCall.op = "add"    -> SetAdd(ilastCall.pre.items, String(ilastCall.name))
      [] ilastCall.op = "remove" -> SetDelete(ilastCall.pre.items, String(ilastCall.name))
      [] OTHER                   -> <<>>
CbEntries(l) == SelectSeq(l, LAMBDA e : e.k = "cb")

\* C12: has() and list() follow a reference set: after add(x) with a truthy
\* x has(x) holds, after remove(x) it does not, after clear() the list is
\* empty, and the list never holds an item twice (calls in which no
\* listener adds items back).
C12_SetSemantics ==
    /\ NoDup(list(IMachine(FALSE)))
    /\ (ilastCall.op = "add" /\ TruthyName(ilastCall.name))
          => (~ilastCall.reentered
                => /\ has(IMachine(FALSE), ilastCall.name)
                   /\ Range(items) = Range(ilastCall.pre.items) \cup {String(ilastCall.name)})
    /\ (ilastCall.op = "add" /\ ~TruthyName(ilastCall.name)) => items = ilastCall.pre.items
    /\ (ilastCall.op = "remove" /\ ~ilastCall.reentered)
          => /\ ~has(IMachine(FALSE), ilastCall.name)
             /\ Range(items) = Range(ilastCall.pre.items) \ {String(ilastCall.name)}
    /\ (ilastCall.op = "clear" /\ ~ilastCall.reentered) => list(IMachine(FALSE)) = <<>>

C12_Witness ==
    /\ ilastCall.op = "remove" /\ ilastCall.name = NameStr("a")
    /\ ilastCall.pre.items = <<"a", "b">> /\ items = <<"b">>

\* C13: add(name) with a truthy name reaches every registered change
\* listener once, and what each listener was last given is the current
\* list; add with a falsy name changes nothing and notifies nobody.
C13_AddNotifiesAll ==
    /\ (ilastCall.op = "add" /\ TruthyName(ilastCall.name))
          => /\ ilog # <<>>
             /\ Cbs(Outer(ilog)) = ilastCall.pre.listeners[EV_CHANGE]
             /\ \A cb \in Delivered(ilog) : LastFor(ilog, cb) = items
    /\ (ilastCall.op = "add" /\ ~TruthyName(ilastCall.name))
          => /\ ilog = <<>>
             /\ items = ilastCall.pre.items
             /\ storage = ilastCall.pre.storage

\* C14: use(name) calls each use listener once with {item: name} exactly
\* when name is in the inventory; it never changes the items or the stored
\* text and sends no change notification.
C14_UseOnlyEmits ==
    ilastCall.op = "use"
    => /\ items = ilastCall.pre.items
       /\ storage = ilastCall.pre.storage
       /\ listeners = ilastCall.pre.listeners
       /\ \A i \in 1..Len(ilog) : ilog[i].type = EV_USE
       /\ IF SetHas(ilastCall.pre.items, String(ilastCall.name))
          THEN /\ Cbs(CbEntries(ilog)) = ilastCall.pre.listeners[EV_USE]
               /\ \A i \in 1..Len(ilog) : ilog[i].val = [item |-> String(ilastCall.name)]
               /\ ~ilastCall.threw
          ELSE ilog = <<>>

C14_Witness ==
    /\ ilastCall.op = "use" /\ ilastCall.name = NameStr("a")
    /\ Len(ilastCall.pre.listeners[EV_USE]) = 2
    /\ Len(ilog) = 3

\* C15: with working storage, after add, remove or clear the stored text
\* decodes to exactly the items in memory, so a reload gives the same set.
C15_RoundTrip ==
    (Mutating /\ ~ilastCall.quota)
    => /\ storage.kind = "json"
       /\ Load(storage) = items
       /\ loadFromLS(IMachine(FALSE)).items = items

C15_Witness ==
    /\ ilastCall.op = "remove" /\ ~ilastCall.quota
    /\ Load(ilastCall.pre.storage) # ilastCall.pre.items
    /\ items # <<>>
    /\ Load(storage) = items

\* C16: a tab that handles a storage event reloads its items from storage
\* and sends a change notification; when no storage event is waiting in
\* either tab, both tabs hold exactly what storage holds (the last write).
C16_TabsConverge ==
    /\ (inbox[1] = 0 /\ inbox[2] = 0)
          => items = Load(storage) /\ peer.items = Load(storage)
    /\ ilastCall.op = "storage"
          => /\ ilog # <<>>
             /\ ilog[1].val = Load(ilastCall.pre.storage)
             /\ Cbs(Outer(ilog)) = ilastCall.pre.listeners[EV_CHANGE]
             /\ \E i \in 1..Len(ilog) : ilog[i].k = "event" /\ ilog[i].val = ilog[1].val
             /\ ~ilastCall.reentered => items = Load(ilastCall.pre.storage)

C16_Witness ==
    /\ ilastCall.op = "storage"
    /\ ilastCall.pre.items = <<"a">> /\ items = <<"b">> /\ peer.items = <<"b">>
    /\ inbox[1] = 0 /\ inbox[2] = 0

\* C17: when the storage write fails, add/remove/clear still change the
\* items in memory, still notify the change listeners with the new list and
\* return normally; when the stored text cannot be read at load or reload
\* the items become empty.
C17_FaultsNotFatal ==
    /\ (Mutating /\ ilastCall.quota)
          => /\ ~ilastCall.threw
             /\ storage = ilastCall.pre.storage
             /\ ilog # <<>>
             /\ ilog[1].val = Expected
             /\ Cbs(Outer(ilog)) = ilastCall.pre.listeners[EV_CHANGE]
             /\ ~ilastCall.reentered => items = Expected
    /\ (ilastCall.op \in {"load", "storage"} /\ ilastCall.pre.storage.kind # "json")
          => /\ ~ilastCall.threw
             /\ ilog # <<>> /\ ilog[1].val = <<>>
             /\ ~ilastCall.reentered => items = <<>>

C17_Witness ==
    /\ ilastCall.op = "add" /\ ilastCall.quota
    /\ ilastCall.pre.listeners[EV_CHANGE] = <<"thrower", "quiet">>
    /\ ilastCall.pre.storage = LSBad
    /\ items = <<"a">>

\* C18: onChange(cb) and subscribe(cb) call cb once themselves, first, with
\* the current list, and every later change notification reaches cb once;
\* onUse(cb) calls nothing at registration and use listeners are called
\* only by a use() of an item that is present.
C18_Registration ==
    /\ (/\ ilastCall.op \in {"onChange", "subscribe"}
        /\ ~ilastCall.threw
        /\ ilastCall.cb # NotAFunction)
       => /\ ilog # <<>>
          /\ ilog[1] = IEntry(EV_CHANGE, ilastCall.cb, ilastCall.pre.items, "on")
          /\ Cardinality({i \in 1..Len(ilog) : ilog[i].by = "on"}) = 1
          /\ SetHas(listeners[EV_CHANGE], ilastCall.cb)
    /\ ilastCall.op = "onUse"
       => /\ ilog = <<>>
          /\ ilastCall.cb # NotAFunction => SetHas(listeners[EV_USE], ilastCall.cb)
    /\ (Mutating /\ ilog # <<>>)
       => Cbs(Outer(ilog)) = ilastCall.pre.listeners[EV_CHANGE]
    /\ \A i \in 1..Len(ilog) :
          ilog[i].type = EV_USE
          => ilastCall.op = "use" /\ SetHas(ilastCall.pre.items, String(ilastCall.name))

C18_Witness ==
    /\ ilastCall.op = "subscribe" /\ ~ilastCall.threw /\ ilastCall.cb = "adder"
    /\ ilastCall.pre.listeners[EV_CHANGE] = <<"quiet">>
    /\ Len(ilog) > 1

\* C20: once the unsubscribe function of a callback subscribed once has
\* been called the callback is no longer registered, and a notification
\* calls exactly the callbacks that were registered when it started, once
\* each and in order, whatever the callbacks subscribe or unsubscribe
\* meanwhile; so an unsubscribed callback is not called by a later
\* notification.
Count(l, x) == Cardinality({i \in 1..Len(l) : l[i] = x})
ByNotify(l) == SelectSeq(l, LAMBDA e : e.k = "cb" /\ e.by = "notify" /\ e.val = l[1].val)
C20_SnapshotNotify ==
    /\ (lastCall.op = "unsubscribe" /\ Count(lastCall.pre.subscribers, lastCall.cb) <= 1)
          => /\ lastCall.cb \notin Range(subscribers)
             /\ log = <<>>
             /\ subscribers = SelectSeq(lastCall.pre.subscribers, LAMBDA c : c # lastCall.cb)
    /\ (lastCall.op \in {"set", "add"} /\ log # <<>>)
          => /\ Cbs(ByNotify(log)) = lastCall.pre.subscribers
             /\ \A i \in 1..Len(log) :
                   (/\ log[i].k = "cb" /\ log[i].val = log[1].val
                    /\ log[i].cb \notin Range(lastCall.pre.subscribers))
                   => log[i].by = "subscribe"

C20_Witness ==
    /\ lastCall.op = "set"
    /\ lastCall.pre.subscribers = <<"unsubber", "quiet">>
    /\ subscribers = <<"unsubber">>
    /\ Cbs(ByNotify(log)) = <<"unsubber", "quiet">>

====
